---- MODULE Spec2Model ----
(***************************************************************************)
(* Optimistic synchronisation client: the WebSocketManager and the React   *)
(* reconciler of sync/src/App.tsx, the Solid store client of               *)
(* frontend/src/App1.tsx, and LocalStorageWithIndex of                     *)
(* frontend/src/local_sync.ts.                                             *)
(*                                                                         *)
(* Strings whose content the code inspects (names and e-mails, which       *)
(* addUser trims) are sequences of one-character strings.  An entity is a  *)
(* function from the field names it carries to their values, so that a     *)
(* partial record ({...undefined, age: 31}) is a function with a smaller   *)
(* domain.  A wire message is likewise a function from the JSON fields it  *)
(* carries to their values.                                                *)
(***************************************************************************)
EXTENDS Integers, Sequences, FiniteSets, TLC

VARIABLES
    socket,             \* WebSocketManager.socket: 0 is null, else an index of readyState
    readyState,         \* readyState of the WebSockets created, in creation order; a socket
                        \* that is CLOSED and not this.socket is unreachable and dropped
    clientVersion,      \* WebSocketManager.clientVersion / App1 clientVersion
    reconnectAttempts,  \* WebSocketManager.reconnectAttempts
    onMessageCallback,  \* WebSocketManager.onMessageCallback: "null" or "handleMessage"
    timers,             \* delays (ms) of the pending setTimeout callbacks of attemptReconnect,
                        \* kept in ascending order
    users,              \* the entity mapping (useState / createStore)
    connectionStatus,   \* useState connectionStatus
    transmitted,        \* messages handed to WebSocket.send, in order
    delivered,          \* messages the transport delivered (message events), in order
    callbackLog,        \* invocations of the message callback: the message and the
                        \* clientVersion the callback could observe
    sendLog,            \* one entry per WebSocketManager.send call: was the socket OPEN
    disconnected,       \* disconnect() was called and the caller has not called connect() since
    nConnects,          \* connect() calls the caller has made
    variant,            \* which client the entity mapping belongs to: "react" or "solid"
    shadow,             \* the entity mapping of the run that skips the optimistic steps
    pendingEcho,        \* the sent message whose echo is still to be delivered, or NoMsg
    deletedKeys,        \* the keys for which an inbound delete has been reconciled
    last,               \* the operation that acted last
    caps,               \* the run's budget: connect() calls, message events, send calls
    localStorage,       \* window.localStorage: the strings stored, by key
    written,            \* by prefix: the ids set and not removed since, with the value
                        \* last set
    everIndexed,        \* by prefix: the composite keys the instance has put in its index
    lastStore           \* the LocalStorageWithIndex call that acted last

mgrVars == <<socket, readyState, clientVersion, reconnectAttempts, onMessageCallback, timers>>
appVars == <<users, connectionStatus>>
logVars == <<transmitted, delivered, callbackLog, sendLog, disconnected, nConnects>>
echoVars == <<variant, shadow, pendingEcho, deletedKeys>>
storeVars == <<localStorage, written, everIndexed, lastStore>>
vars == <<mgrVars, appVars, logVars, echoVars, last, caps, storeVars>>

----------------------------------------------------------------------------
(* Bounds of the model *)

MaxConnects == 2    \* connect() calls of the caller in one run of the lifecycle specification
LifeMsgs == 1       \* message events delivered in one run of the lifecycle specification
MsgConnects == 1    \* connect() calls of the caller in one run of the messaging specification
MaxMsgs == 2        \* message events delivered in one run of the messaging specification
MaxSends == 2       \* WebSocketManager.send calls in one run of the messaging specification
MaxVersion == 1     \* inbound version fields range over 0..MaxVersion

(* Program constants *)

maxReconnectAttempts == 5
baseDelay == 2000

clientId == "client-1"
timeStamp == "ISO-8601"

----------------------------------------------------------------------------
(* Strings, entities, messages *)

Space == " "

RECURSIVE TrimStart(_)
TrimStart(s) == IF s # <<>> /\ Head(s) = Space THEN TrimStart(Tail(s)) ELSE s

RECURSIVE TrimEnd(_)
TrimEnd(s) ==
    IF s # <<>> /\ s[Len(s)] = Space THEN TrimEnd(SubSeq(s, 1, Len(s) - 1)) ELSE s

\* String.prototype.trim
Trim(s) == TrimEnd(TrimStart(s))

Names == {<<"a">>, <<" ", "a">>}
Ages == {30, 31}

\* the empty object, also what spreading undefined yields
EmptyObj == [f \in {} |-> 0]

Has(obj, f) == f \in DOMAIN obj

\* {...a, ...b}
Spread(a, b) ==
    [f \in (DOMAIN a) \cup (DOMAIN b) |-> IF f \in DOMAIN b THEN b[f] ELSE a[f]]

\* prev[key], with undefined read as the empty object by the spread around it
Lookup(u, k) == IF k \in DOMAIN u THEN u[k] ELSE EmptyObj

\* {...prev, [key]: entry}
Put(u, k, entry) == [x \in (DOMAIN u) \cup {k} |-> IF x = k THEN entry ELSE u[x]]

\* const updated = {...prev}; delete updated[key]
Remove(u, k) == [x \in (DOMAIN u) \ {k} |-> u[x]]

\* Object.values(users).filter(user => !user.is_deleted), as the keys of the entries kept
ActiveKeys(u) == {k \in DOMAIN u : ~(Has(u[k], "is_deleted") /\ u[k].is_deleted)}

----------------------------------------------------------------------------
(* sync/src/App.tsx: handleMessage, the reconciliation of one inbound message *)

NoMsg == [type |-> "none"]

\* case 'add'
HandleAdd(u, msg) ==
    IF Has(msg, "data")
    THEN Put(u, msg.key, Spread(msg.data, [is_deleted |-> FALSE]))
    ELSE u

HandleEditReplacing(u, msg) ==
    IF Has(msg, "row_changes") THEN Put(u, msg.key, msg.row_changes) ELSE u

\* case 'edit'
HandleEdit(u, msg) ==
    IF Has(msg, "row_changes")
    THEN Put(u, msg.key, Spread(Lookup(u, msg.key), msg.row_changes))
    ELSE u

HandleDeleteKeeping(u, msg) == u

\* case 'delete'
HandleDelete(u, msg) == Remove(u, msg.key)

\* setUsers of handleMessage, as a function of the mapping
HandleMessage(u, msg) ==
    CASE msg.type = "add" -> HandleAdd(u, msg)
      [] msg.type = "edit" -> HandleEdit(u, msg)
      [] msg.type = "delete" -> HandleDelete(u, msg)
      [] OTHER -> u

\* the optimistic updates of addUser, editUser and deleteUser
AddUserLocal(u, name, age, email) ==
    Put(u, name, Spread([name |-> Trim(name), age |-> age, email |-> Trim(email)],
                        [is_deleted |-> FALSE]))

EditUserLocal(u, key, field, value) ==
    Put(u, key, Spread(Lookup(u, key), [f \in {field} |-> value]))

DeleteUserLocal(u, key) == Remove(u, key)

\* the messages addUser, editUser and deleteUser pass to wsManager.send
AddUserMessage(name, age, email) ==
    [type |-> "add", data |-> [name |-> Trim(name), age |-> age, email |-> Trim(email)],
     key |-> name]

EditUserMessage(key, field, value) ==
    [type |-> "edit", key |-> key, field |-> field, value |-> value]

DeleteUserMessage(key) == [type |-> "delete", key |-> key]

----------------------------------------------------------------------------
(* frontend/src/App1.tsx: the Solid store client.  setUsers is the setter  *)
(* of createStore: an object written over an object is merged into it      *)
(* shallowly, undefined removes the property, and a path through a missing *)
(* entry raises a TypeError, which ends the handler with the store as it   *)
(* is.                                                                     *)

ReadyStates == {"CONNECTING", "OPEN", "CLOSING", "CLOSED"}

\* setUsers(key, object)
SolidSetEntry(u, k, obj) ==
    IF k \in DOMAIN u THEN Put(u, k, Spread(u[k], obj)) ELSE Put(u, k, obj)

\* setUsers(key, undefined)
SolidUnset(u, k) == Remove(u, k)

\* setUsers(key, field, value); a missing entry raises, the store is unchanged
SolidSetField(u, k, field, value) ==
    IF k \in DOMAIN u THEN Put(u, k, Spread(u[k], [f \in {field} |-> value])) ELSE u

\* for (const [key, value] of Object.entries(row_changes)) setUsers(msg.key, key, value)
RECURSIVE SolidSetFields(_, _, _, _)
SolidSetFields(u, k, changes, fields) ==
    IF fields = {} THEN u
    ELSE LET f == CHOOSE x \in fields : TRUE
         IN  SolidSetFields(SolidSetField(u, k, f, changes[f]), k, changes, fields \ {f})

\* case "add": msg.data is undefined when the message carries none
SolidAdd(u, msg) ==
    IF Has(msg, "data") THEN SolidSetEntry(u, msg.key, msg.data) ELSE SolidUnset(u, msg.key)

\* case "edit": Object.entries(undefined) raises
SolidEdit(u, msg) ==
    IF Has(msg, "row_changes")
    THEN SolidSetFields(u, msg.key, msg.row_changes, DOMAIN msg.row_changes)
    ELSE u

\* case "delete"
SolidDelete(u, msg) == SolidUnset(u, msg.key)

\* the switch of socket.onmessage, as a function of the store
SolidOnMessage(u, msg) ==
    CASE msg.type = "add" -> SolidAdd(u, msg)
      [] msg.type = "edit" -> SolidEdit(u, msg)
      [] msg.type = "delete" -> SolidDelete(u, msg)
      [] OTHER -> u

\* the switch of socket.onmessage ends in a TypeError: Object.entries(undefined), or
\* setUsers(key, field, value) through an entry the store does not hold
SolidOnMessageRaises(u, msg) ==
    /\ msg.type = "edit"
    /\ \/ ~Has(msg, "row_changes")
       \/ msg.row_changes # EmptyObj /\ msg.key \notin DOMAIN u

\* WebSocket.send raises InvalidStateError on a socket that is still connecting
SendThrows(state) == state = "CONNECTING"

\* addUser, editUser and deleteUser: socket.send first, then the store; state is the
\* socket's readyState
SolidAddUser(u, state, name, age, email) ==
    IF SendThrows(state) THEN u
    ELSE SolidSetEntry(u, name, [name |-> name, age |-> age, email |-> email])

SolidEditUser(u, state, key, field, value) ==
    IF SendThrows(state) THEN u ELSE SolidSetField(u, key, field, value)

SolidDeleteUser(u, state, key) ==
    IF SendThrows(state) THEN u ELSE SolidSetField(u, key, "is_deleted", TRUE)

\* what the three functions pass to socket.send, before JSON.stringify
SolidStamp(message, version) ==
    Spread(message, [version |-> version, clientId |-> clientId, time |-> timeStamp])

SolidAddUserMessage(name, age, email) ==
    [type |-> "add", data |-> [name |-> name, age |-> age, email |-> email], key |-> name,
     value |-> [name |-> name, age |-> age, email |-> email]]

SolidEditUserMessage(key, field, value) ==
    [type |-> "edit", key |-> key, field |-> field, value |-> value]

SolidDeleteUserMessage(key) == [type |-> "delete", key |-> key]

----------------------------------------------------------------------------
(* sync/src/App.tsx: WebSocketManager.  Its methods are functions of the   *)
(* manager's fields, gathered in a record.                                 *)

Mgr ==
    [socket |-> socket, readyState |-> readyState, clientVersion |-> clientVersion,
     reconnectAttempts |-> reconnectAttempts, onMessageCallback |-> onMessageCallback,
     timers |-> timers]

\* the sockets still reachable: not CLOSED, or held in this.socket
Reachable(m) == {i \in 1 .. Len(m.readyState) : m.readyState[i] # "CLOSED" \/ i = m.socket}

RECURSIVE KeepReachable(_, _, _)
KeepReachable(states, keep, i) ==
    IF i > Len(states) THEN <<>>
    ELSE (IF i \in keep THEN <<states[i]>> ELSE <<>>) \o KeepReachable(states, keep, i + 1)

SetMgr(m) ==
    /\ socket' = Cardinality({i \in Reachable(m) : i <= m.socket})
    /\ readyState' = KeepReachable(m.readyState, Reachable(m), 1)
    /\ clientVersion' = m.clientVersion
    /\ reconnectAttempts' = m.reconnectAttempts
    /\ onMessageCallback' = m.onMessageCallback
    /\ timers' = m.timers

\* setTimeout(callback, delay) on the pending timers
SetTimeout(pending, delay) ==
    LET before == SelectSeq(pending, LAMBDA d : d <= delay)
        after == SelectSeq(pending, LAMBDA d : d > delay)
    IN  before \o <<delay>> \o after

MayReconnectOffByOne(m) == m.reconnectAttempts <= maxReconnectAttempts

\* if (this.reconnectAttempts < this.maxReconnectAttempts)
MayReconnect(m) == m.reconnectAttempts < maxReconnectAttempts

attemptReconnect(m) ==
    IF MayReconnect(m)
    THEN [m EXCEPT !.reconnectAttempts = @ + 1,
                   !.timers = SetTimeout(@, baseDelay * (m.reconnectAttempts + 1))]
    ELSE m

\* connect(onMessage); ctorThrows: new WebSocket(...) raised, the catch branch runs
connect(m, onMessage, ctorThrows) ==
    LET m1 == [m EXCEPT !.onMessageCallback = onMessage]
    IN  IF ctorThrows
        THEN attemptReconnect(m1)
        ELSE [m1 EXCEPT !.readyState = Append(@, "CONNECTING"),
                        !.socket = Len(m.readyState) + 1]

onopenKeeping(m) == m

\* this.reconnectAttempts = 0
onopen(m) == [m EXCEPT !.reconnectAttempts = 0]

onclose(m) == attemptReconnect(m)

\* the first statements of socket.onmessage, up to the callback test
onmessageVersion(m, msg) == [m EXCEPT !.clientVersion = msg.version]

VersionAtCallbackStale(m, msg) == m.clientVersion

\* the clientVersion the callback observes when socket.onmessage invokes it
VersionAtCallback(m, msg) == onmessageVersion(m, msg).clientVersion

\* the body of a reconnection timer
timerBody(m, ctorThrows) ==
    IF m.onMessageCallback # "null"
    THEN connect(m, m.onMessageCallback, ctorThrows)
    ELSE m

\* WebSocket.close(): a socket that is connecting or open starts closing
CloseCalled(state) == IF state \in {"CONNECTING", "OPEN"} THEN "CLOSING" ELSE state

disconnect(m) ==
    IF m.socket # 0
    THEN [m EXCEPT !.readyState[m.socket] = CloseCalled(@), !.socket = 0]
    ELSE m

\* this.socket && this.socket.readyState === WebSocket.OPEN
SocketIsOpen(m) == m.socket # 0 /\ m.readyState[m.socket] = "OPEN"

CanSendAnySocket(m) == m.socket # 0

\* the test of send
CanSend(m) == SocketIsOpen(m)

\* what send hands to the socket
Stamp(m, message) ==
    Spread(message, [version |-> m.clientVersion, clientId |-> clientId, time |-> timeStamp])

\* send(message), on the log of transmitted messages; n is the call's number
send(m, out, message, n) ==
    IF CanSend(m) THEN Append(out, [call |-> n, wire |-> Stamp(m, message)]) ELSE out

RemoveAt(s, i) == SubSeq(s, 1, i - 1) \o SubSeq(s, i + 1, Len(s))

----------------------------------------------------------------------------
(* frontend/src/local_sync.ts: LocalStorageWithIndex.  An instance holds   *)
(* only its prefix and the index key computed from it, so its methods are  *)
(* functions of the prefix and of the shared localStorage.  Keys and       *)
(* stored values are strings, sequences of one-character strings; a JSON   *)
(* value is a record with the one field that names its type.               *)

Quote == "\""

Num(n) == [number |-> n]
Str(s) == [string |-> s]
Arr(a) == [array |-> a]
JsonNull == [null |-> TRUE]

Digits == <<"0", "1", "2", "3", "4", "5", "6", "7", "8", "9">>

\* the elements of an array of strings, separated by commas; the strings of the model
\* hold no character that JSON escapes
RECURSIVE StringifyItems(_)
StringifyItems(a) ==
    IF a = <<>> THEN <<>>
    ELSE <<Quote>> \o Head(a) \o <<Quote>>
            \o (IF Len(a) > 1 THEN <<",">> ELSE <<>>) \o StringifyItems(Tail(a))

\* JSON.stringify
JSONStringify(v) ==
    CASE Has(v, "number") -> <<Digits[v.number + 1]>>
      [] Has(v, "string") -> <<Quote>> \o v.string \o <<Quote>>
      [] Has(v, "array") -> <<"[">> \o StringifyItems(v.array) \o <<"]">>
      [] OTHER -> <<"n", "u", "l", "l">>

\* the position of the first quote of s after position i
RECURSIVE ClosingQuote(_, _)
ClosingQuote(s, i) == IF s[i + 1] = Quote THEN i + 1 ELSE ClosingQuote(s, i + 1)

\* the strings between the brackets of an array
RECURSIVE ParseItems(_)
ParseItems(s) ==
    IF s = <<>> THEN <<>>
    ELSE IF Head(s) = "," THEN ParseItems(Tail(s))
    ELSE LET close == ClosingQuote(s, 1)
         IN  <<SubSeq(s, 2, close - 1)>> \o ParseItems(SubSeq(s, close + 1, Len(s)))

\* JSON.parse, on what JSONStringify wrote
JSONParse(raw) ==
    CASE Head(raw) = Quote -> Str(SubSeq(raw, 2, Len(raw) - 1))
      [] Head(raw) = "[" -> Arr(ParseItems(SubSeq(raw, 2, Len(raw) - 1)))
      [] Head(raw) = "n" -> JsonNull
      [] OTHER -> Num((CHOOSE d \in 1 .. Len(Digits) : Digits[d] = Head(raw)) - 1)

\* raw ? ... : ..., for raw = localStorage.getItem(key): null and "" are falsy
Truthy(ls, key) == key \in DOMAIN ls /\ ls[key] # <<>>

\* new LocalStorageWithIndex("user") of App1.tsx
User == <<"u", "s", "e", "r">>

\* the prefixes of the instances that share localStorage
Prefixes == {User, User \o <<"-", "b">>}

Ids == {<<"c">>, <<"b", "-", "c">>}

CacheValues == {Num(1), Num(2), Str(<<>>)}

\* this.indexKey
indexKey(prefix) == <<"_", "_", "i", "n", "d", "e", "x", "_", "_", ":">> \o prefix

getIndex(ls, prefix) ==
    IF Truthy(ls, indexKey(prefix)) THEN JSONParse(ls[indexKey(prefix)]).array ELSE <<>>

setIndex(ls, prefix, index) == Put(ls, indexKey(prefix), JSONStringify(Arr(index)))

getFullKey(prefix, id) == prefix \o <<"-">> \o id

Range(index) == {index[i] : i \in 1 .. Len(index)}

\* new Set(array), in insertion order
RECURSIVE NewSet(_)
NewSet(index) ==
    IF index = <<>> THEN <<>>
    ELSE LET front == NewSet(SubSeq(index, 1, Len(index) - 1))
             x == index[Len(index)]
         IN  IF x \in Range(front) THEN front ELSE Append(front, x)

\* Set.prototype.add and delete, then Array.from
SetAdd(index, key) == IF key \in Range(index) THEN index ELSE Append(index, key)
SetDelete(index, key) == SelectSeq(index, LAMBDA x : x # key)

setItem(ls, prefix, id, value) ==
    LET fullKey == getFullKey(prefix, id)
        stored == Put(ls, fullKey, JSONStringify(value))
    IN  setIndex(stored, prefix, SetAdd(NewSet(getIndex(stored, prefix)), fullKey))

\* null is JsonNull
getItem(ls, prefix, id) ==
    LET fullKey == getFullKey(prefix, id)
    IN  IF Truthy(ls, fullKey) THEN JSONParse(ls[fullKey]) ELSE JsonNull

getAllItems(ls, prefix) ==
    [key \in {k \in Range(getIndex(ls, prefix)) : k \in DOMAIN ls} |-> JSONParse(ls[key])]

removeItem(ls, prefix, id) ==
    LET fullKey == getFullKey(prefix, id)
        removed == Remove(ls, fullKey)
    IN  setIndex(removed, prefix, SetDelete(NewSet(getIndex(removed, prefix)), fullKey))

\* for (const key of index) localStorage.removeItem(key)
RemoveAll(ls, keys) == [k \in DOMAIN ls \ keys |-> ls[k]]

clearAllKeepingIndex(ls, prefix) == RemoveAll(ls, Range(getIndex(ls, prefix)))

clearAll(ls, prefix) ==
    Remove(RemoveAll(ls, Range(getIndex(ls, prefix))), indexKey(prefix))

\* lastStore, before any call
NoStoreOp == [op |-> "none", prefix |-> <<>>, id |-> <<>>, had |-> 0]

----------------------------------------------------------------------------
(* Inputs of the connection specifications *)

Versions == 0 .. MaxVersion

WireName == <<"a">>
WireEntity == [name |-> WireName, age |-> 30, email |-> <<"x">>]

\* what the remote end may deliver, before its version field
WireBodies ==
    { [type |-> "add", key |-> WireName, data |-> WireEntity],
      [type |-> "edit", key |-> WireName, row_changes |-> [age |-> 31]],
      [type |-> "edit", key |-> WireName, field |-> "age", value |-> 31],
      [type |-> "delete", key |-> WireName] }

WireMsgs == {Spread(b, [version |-> v]) : b \in WireBodies, v \in Versions}

----------------------------------------------------------------------------
(* The caller, the transport and the timers acting on a WebSocketManager   *)
(* whose callback is handleMessage of UserSyncApp.                         *)

ReactFrame == UNCHANGED <<echoVars, last, caps, storeVars>>

\* wsManager.current.connect(handleMessage)
CallerConnect(ctorThrows) ==
    /\ nConnects < caps.connects
    /\ SetMgr(connect(Mgr, "handleMessage", ctorThrows))
    /\ disconnected' = FALSE
    /\ nConnects' = nConnects + 1
    /\ UNCHANGED <<appVars, transmitted, delivered, callbackLog, sendLog>>
    /\ ReactFrame

\* wsManager.current?.disconnect()
CallerDisconnect ==
    /\ SetMgr(disconnect(Mgr))
    /\ disconnected' = TRUE
    /\ UNCHANGED <<appVars, transmitted, delivered, callbackLog, sendLog, nConnects>>
    /\ ReactFrame

\* the open event of socket i
SocketOpen(i) ==
    /\ readyState[i] = "CONNECTING"
    /\ SetMgr(onopen([Mgr EXCEPT !.readyState[i] = "OPEN"]))
    /\ UNCHANGED <<appVars, logVars>>
    /\ ReactFrame

\* a message event of socket i: socket.onmessage, and handleMessage when registered
SocketMessage(i, msg) ==
    /\ readyState[i] = "OPEN"
    /\ Len(delivered) < caps.msgs
    /\ delivered' = Append(delivered, msg)
    /\ SetMgr(onmessageVersion(Mgr, msg))
    /\ IF onMessageCallback # "null"
       THEN /\ callbackLog' =
                 Append(callbackLog, [msg |-> msg, seen |-> VersionAtCallback(Mgr, msg)])
            /\ connectionStatus' = "connected"
            /\ users' = HandleMessage(users, msg)
       ELSE UNCHANGED <<callbackLog, connectionStatus, users>>
    /\ UNCHANGED <<transmitted, sendLog, disconnected, nConnects>>
    /\ ReactFrame

\* the close event of socket i: socket.onclose
SocketClose(i) ==
    /\ readyState[i] \in {"CONNECTING", "OPEN", "CLOSING"}
    /\ SetMgr(onclose([Mgr EXCEPT !.readyState[i] = "CLOSED"]))
    /\ UNCHANGED <<appVars, logVars>>
    /\ ReactFrame

\* the connection of socket i fails: an error event, which socket.onerror only logs,
\* and the close event after it in the same task
SocketError(i) ==
    /\ readyState[i] \in {"CONNECTING", "OPEN"}
    /\ SetMgr(onclose([Mgr EXCEPT !.readyState[i] = "CLOSED"]))
    /\ UNCHANGED <<appVars, logVars>>
    /\ ReactFrame

\* the pending timer t fires
TimerFire(t, ctorThrows) ==
    /\ SetMgr(timerBody([Mgr EXCEPT !.timers = RemoveAt(@, t)], ctorThrows))
    /\ UNCHANGED <<appVars, logVars>>
    /\ ReactFrame

\* wsManager.current?.send(message) after an optimistic update to the mapping u
LocalCall(u, message) ==
    /\ Len(sendLog) < caps.sends
    /\ users' = u
    /\ transmitted' = send(Mgr, transmitted, message, Len(sendLog) + 1)
    /\ sendLog' = Append(sendLog, SocketIsOpen(Mgr))
    /\ UNCHANGED <<mgrVars, connectionStatus, delivered, callbackLog, disconnected, nConnects>>
    /\ ReactFrame

AddUser(name, age, email) ==
    LocalCall(AddUserLocal(users, name, age, email), AddUserMessage(name, age, email))

EditUser(key, field, value) ==
    LocalCall(EditUserLocal(users, key, field, value), EditUserMessage(key, field, value))

DeleteUser(key) ==
    LocalCall(DeleteUserLocal(users, key), DeleteUserMessage(key))

\* last, before any operation
NoOp == [op |-> "init", type |-> "none", key |-> <<>>, full |-> FALSE, had |-> FALSE,
         again |-> FALSE]

\* the state after construction of client v; states holds the sockets created and
\* callback the registered callback
InitClient(v, c, states, callback) ==
    /\ socket = Len(states)
    /\ readyState = states
    /\ clientVersion = 0
    /\ reconnectAttempts = 0
    /\ onMessageCallback = callback
    /\ timers = <<>>
    /\ users = EmptyObj
    /\ connectionStatus = "connecting"
    /\ transmitted = <<>>
    /\ delivered = <<>>
    /\ callbackLog = <<>>
    /\ sendLog = <<>>
    /\ disconnected = FALSE
    /\ nConnects = Len(states)
    /\ variant = v
    /\ shadow = EmptyObj
    /\ pendingEcho = NoMsg
    /\ deletedKeys = {}
    /\ last = NoOp
    /\ caps = c
    /\ localStorage = EmptyObj
    /\ written = [p \in Prefixes |-> EmptyObj]
    /\ everIndexed = [p \in Prefixes |-> {}]
    /\ lastStore = NoStoreOp

InitReact(c) == InitClient("react", c, <<>>, "null")

Sockets == 1 .. Len(readyState)

\* the connection lifecycle: caller, transport and timers
Init == InitReact([connects |-> MaxConnects, msgs |-> LifeMsgs, sends |-> 0])

Next ==
    \/ \E ctorThrows \in BOOLEAN : CallerConnect(ctorThrows)
    \/ CallerDisconnect
    \/ \E i \in Sockets : SocketOpen(i)
    \/ \E i \in Sockets, msg \in WireMsgs : SocketMessage(i, msg)
    \/ \E i \in Sockets : SocketClose(i)
    \/ \E i \in Sockets : SocketError(i)
    \/ \E t \in 1 .. Len(timers), ctorThrows \in BOOLEAN : TimerFire(t, ctorThrows)

Spec == Init /\ [][Next]_vars

\* the same with the user's calls, for the claims about messages
InitMsg == InitReact([connects |-> MsgConnects, msgs |-> MaxMsgs, sends |-> MaxSends])

NextMsg ==
    \/ Next
    \/ AddUser(WireName, 30, <<"x">>)
    \/ EditUser(WireName, "age", 31)
    \/ DeleteUser(WireName)

SpecMsg == InitMsg /\ [][NextMsg]_vars

----------------------------------------------------------------------------
(* Reconciliation: the entity mapping of either client under the user's    *)
(* calls and inbound messages.  JSON.parse(JSON.stringify(x)) is x for the *)
(* values of the model (strings, integers, booleans and plain objects of   *)
(* them), so a message is delivered as the object that was sent.           *)

InEntities == {[name |-> n, age |-> a, email |-> <<"x">>] : n \in Names, a \in Ages}

RowChanges ==
    {EmptyObj, [email |-> <<"x">>]}
        \cup {[age |-> a] : a \in Ages}
        \cup {[age |-> a, email |-> <<"x">>] : a \in Ages}

LocalEmail == <<"x", " ">>

\* the (field, value) pairs of the editUser calls
FieldValues ==
    {<<"age", a>> : a \in Ages} \cup {<<"email", LocalEmail>>}
        \cup {<<"name", n>> : n \in Names}

ReconBodies ==
    {[type |-> "add", key |-> k, data |-> d] : k \in Names, d \in InEntities}
        \cup {[type |-> "edit", key |-> k, row_changes |-> r] : k \in Names, r \in RowChanges}
        \cup {EditUserMessage(k, "age", a) : k \in Names, a \in Ages}
        \cup {[type |-> "delete", key |-> k] : k \in Names}
        \cup {[type |-> "add", key |-> k] : k \in Names}
        \cup {[type |-> "rename", key |-> k] : k \in Names}

ReconMsgs == {Spread(b, [version |-> MaxVersion]) : b \in ReconBodies}

\* the message carries the payload of its type
Full(msg) ==
    \/ msg.type = "add" /\ Has(msg, "data")
    \/ msg.type = "edit" /\ Has(msg, "row_changes")
    \/ msg.type = "delete"

\* handleMessage or the switch of socket.onmessage, by client
Reconcile(v, u, msg) == IF v = "react" THEN HandleMessage(u, msg) ELSE SolidOnMessage(u, msg)

\* handling the message ends in an exception; handleMessage has no statement that raises
Raises(v, u, msg) == v = "solid" /\ SolidOnMessageRaises(u, msg)

\* the readyState values the call meets: App1's socket still connecting or open, while
\* the manager of UserSyncApp is not connected in this specification
CallStates == IF variant = "solid" THEN {"CONNECTING", "OPEN"} ELSE {"CLOSED"}

ReconFrame == UNCHANGED <<shadow, pendingEcho, variant, caps, logVars, storeVars>>

\* an inbound message is handled
ReconInbound(msg) ==
    /\ users' = Reconcile(variant, users, msg)
    /\ clientVersion' = msg.version
    /\ connectionStatus' = IF variant = "react" THEN "connected" ELSE connectionStatus
    /\ deletedKeys' = IF msg.type = "delete" THEN deletedKeys \cup {msg.key} ELSE deletedKeys
    /\ last' = [op |-> "inbound", type |-> msg.type, key |-> msg.key, full |-> Full(msg),
                had |-> msg.key \in DOMAIN users,
                again |-> /\ msg.type = "add" /\ Full(msg)
                          /\ last.op = "inbound" /\ last.type = "add" /\ last.full
                          /\ last.key = msg.key]
    /\ UNCHANGED <<socket, readyState, reconnectAttempts, onMessageCallback, timers>>
    /\ ReconFrame

ReconLocal(u, op, type, key) ==
    /\ users' = u
    /\ last' = [op |-> op, type |-> type, key |-> key, full |-> TRUE,
                had |-> key \in DOMAIN users, again |-> FALSE]
    /\ UNCHANGED <<mgrVars, connectionStatus, deletedKeys>>
    /\ ReconFrame

ReconAddUser(name, age, email, state) ==
    ReconLocal(IF variant = "react" THEN AddUserLocal(users, name, age, email)
               ELSE SolidAddUser(users, state, name, age, email),
               "addUser", "add", name)

ReconEditUser(key, field, value, state) ==
    ReconLocal(IF variant = "react" THEN EditUserLocal(users, key, field, value)
               ELSE SolidEditUser(users, state, key, field, value),
               "editUser", "edit", key)

ReconDeleteUser(key, state) ==
    ReconLocal(IF variant = "react" THEN DeleteUserLocal(users, key)
               ELSE SolidDeleteUser(users, state, key),
               "deleteUser", "delete", key)

NoBudget == [connects |-> 0, msgs |-> 0, sends |-> 0]

InitRecon == \E v \in {"react", "solid"} : InitClient(v, NoBudget, <<>>, "null")

NextRecon ==
    \/ \E msg \in ReconMsgs : ReconInbound(msg)
    \/ \E name \in Names, age \in Ages, state \in CallStates :
          ReconAddUser(name, age, LocalEmail, state)
    \/ \E key \in Names, fv \in FieldValues, state \in CallStates :
          ReconEditUser(key, fv[1], fv[2], state)
    \/ \E key \in Names, state \in CallStates : ReconDeleteUser(key, state)

SpecRecon == InitRecon /\ [][NextRecon]_vars

----------------------------------------------------------------------------
(* Each call followed by the echo of the message it sent, over an open     *)
(* connection; shadow is the mapping of the run that skips the optimistic  *)
(* update of every call.  The user interface offers edit and delete for    *)
(* the entries it lists.                                                   *)

\* the message the call hands to the open socket
Sent(reactMessage, solidMessage) ==
    IF variant = "react" THEN Stamp(Mgr, reactMessage)
    ELSE SolidStamp(solidMessage, clientVersion)

EchoCall(u, message) ==
    /\ pendingEcho = NoMsg
    /\ users' = u
    /\ pendingEcho' = message
    /\ UNCHANGED <<mgrVars, connectionStatus, logVars, variant, shadow, deletedKeys, last,
                   caps, storeVars>>

EchoAddUser(name, age, email) ==
    EchoCall(IF variant = "react" THEN AddUserLocal(users, name, age, email)
             ELSE SolidAddUser(users, "OPEN", name, age, email),
             Sent(AddUserMessage(name, age, email), SolidAddUserMessage(name, age, email)))

EchoEditUser(key, field, value) ==
    /\ key \in DOMAIN users
    /\ EchoCall(IF variant = "react" THEN EditUserLocal(users, key, field, value)
                ELSE SolidEditUser(users, "OPEN", key, field, value),
                Sent(EditUserMessage(key, field, value),
                     SolidEditUserMessage(key, field, value)))

EchoDeleteUser(key) ==
    /\ key \in DOMAIN users
    /\ EchoCall(IF variant = "react" THEN DeleteUserLocal(users, key)
                ELSE SolidDeleteUser(users, "OPEN", key),
                Sent(DeleteUserMessage(key), SolidDeleteUserMessage(key)))

\* the echo arrives: socket.onmessage in both runs
EchoDeliver ==
    /\ pendingEcho # NoMsg
    /\ users' = Reconcile(variant, users, pendingEcho)
    /\ shadow' = Reconcile(variant, shadow, pendingEcho)
    /\ clientVersion' = pendingEcho.version
    /\ connectionStatus' = IF variant = "react" THEN "connected" ELSE connectionStatus
    /\ pendingEcho' = NoMsg
    /\ UNCHANGED <<socket, readyState, reconnectAttempts, onMessageCallback, timers, logVars,
                   variant, deletedKeys, last, caps, storeVars>>

InitEcho ==
    \E v \in {"react", "solid"} :
        InitClient(v, NoBudget, <<"OPEN">>, IF v = "react" THEN "handleMessage" ELSE "null")

NextEcho ==
    \/ \E name \in Names, age \in Ages : EchoAddUser(name, age, LocalEmail)
    \/ \E key \in Names, fv \in FieldValues : EchoEditUser(key, fv[1], fv[2])
    \/ \E key \in Names : EchoDeleteUser(key)
    \/ EchoDeliver

SpecEcho == InitEcho /\ [][NextEcho]_vars

----------------------------------------------------------------------------
(* The calls on LocalStorageWithIndex instances *)

StoreFrame == UNCHANGED <<mgrVars, appVars, logVars, echoVars, last, caps>>

\* a call on the instance with prefix p
StoreCall(p, op, id) ==
    /\ lastStore' = [op |-> op, prefix |-> p, id |-> id,
                     had |-> Cardinality(DOMAIN written[p])]
    /\ StoreFrame

SetItem(p, id, value) ==
    /\ localStorage' = setItem(localStorage, p, id, value)
    /\ written' = [written EXCEPT ![p] = Put(@, id, value)]
    /\ everIndexed' = [everIndexed EXCEPT ![p] = @ \cup {getFullKey(p, id)}]
    /\ StoreCall(p, "setItem", id)

RemoveItem(p, id) ==
    /\ localStorage' = removeItem(localStorage, p, id)
    /\ written' = [written EXCEPT ![p] = Remove(@, id)]
    /\ UNCHANGED everIndexed
    /\ StoreCall(p, "removeItem", id)

ClearAll(p) ==
    /\ localStorage' = clearAll(localStorage, p)
    /\ written' = [written EXCEPT ![p] = EmptyObj]
    /\ UNCHANGED everIndexed
    /\ StoreCall(p, "clearAll", <<>>)

InitCache == InitClient("solid", NoBudget, <<>>, "null")

\* the calls on the instances with the prefixes ps
NextStore(ps) ==
    \/ \E p \in ps, id \in Ids, value \in CacheValues : SetItem(p, id, value)
    \/ \E p \in ps, id \in Ids : RemoveItem(p, id)
    \/ \E p \in ps : ClearAll(p)

\* one instance, window.users_store of App1.tsx
NextCache == NextStore({User})

SpecCache == InitCache /\ [][NextCache]_vars

\* two instances on one localStorage
NextShared == NextStore(Prefixes)

SpecShared == InitCache /\ [][NextShared]_vars

----------------------------------------------------------------------------
(* Claims about the WebSocketManager *)

NumConnecting == Cardinality({i \in Sockets : readyState[i] = "CONNECTING"})
NumLive == Cardinality({i \in Sockets : readyState[i] \in {"CONNECTING", "OPEN"}})

\* C2: once disconnect() has been called, and until the caller calls connect() again, no
\* step schedules a reconnection timer, creates a socket or invokes the message
\* callback, and a further disconnect() changes nothing.
C2_DisconnectStopsReconnection ==
    [][(disconnected /\ disconnected') =>
          /\ Len(timers') <= Len(timers)
          /\ NumConnecting' <= NumConnecting
          /\ callbackLog' = callbackLog
          /\ (CallerDisconnect => UNCHANGED mgrVars)]_vars

\* every attempt is used up and nothing is pending: no timer, no socket that can still
\* raise an event
Terminated ==
    /\ reconnectAttempts = maxReconnectAttempts
    /\ timers = <<>>
    /\ \A i \in Sockets : readyState[i] = "CLOSED"

\* C3: while reconnectAttempts is at maxReconnectAttempts no step schedules a timer, and
\* once the last attempt's socket has closed the manager stays without timer and
\* without live socket in every later state, unless the caller calls connect().
C3_NoReconnectAfterExhaustion ==
    [][/\ (reconnectAttempts = maxReconnectAttempts => Len(timers') <= Len(timers))
       /\ (Terminated /\ nConnects' = nConnects => Terminated')]_vars

\* five reconnections of one connect() call have failed
C3_Witness == Terminated /\ nConnects = 1 /\ ~disconnected

\* C4: at most one transport is connecting or open, and at most one reconnection timer
\* is pending.
C4_SingleConnection == NumLive <= 1 /\ Len(timers) <= 1

\* C5: a send() made while the socket is absent or not OPEN changes neither the manager
\* nor what was transmitted, and its message is in no later state among the
\* transmitted ones.
C5_DroppedNeverSent ==
    /\ [](\A i \in 1 .. Len(transmitted) : sendLog[transmitted[i].call])
    /\ [][(Len(sendLog') > Len(sendLog) /\ ~SocketIsOpen(Mgr)) =>
             (transmitted' = transmitted /\ UNCHANGED mgrVars)]_vars

\* a first call was dropped, the connection came back and a second call was transmitted
C5_Witness ==
    /\ sendLog = <<FALSE, TRUE>>
    /\ Len(transmitted) = 1
    /\ reconnectAttempts = 0
    /\ nConnects = 1

\* C6: the callback has been invoked once per delivered message, in delivery order, and
\* each time clientVersion was already the message's version.
C6_CallbackFollowsDelivery ==
    /\ Len(callbackLog) = Len(delivered)
    /\ \A i \in 1 .. Len(delivered) :
          callbackLog[i] = [msg |-> delivered[i], seen |-> delivered[i].version]

C6_Witness ==
    /\ Len(delivered) = 2
    /\ delivered[1] # delivered[2]
    /\ delivered[1].version > delivered[2].version

\* C7: clientVersion never decreases.
C7_VersionMonotone == [][clientVersion' >= clientVersion]_vars

\* the data / row_changes contract of the message's type
WireInvariant(msg) ==
    /\ Has(msg, "data") <=> msg.type = "add"
    /\ Has(msg, "row_changes") <=> msg.type = "edit"

\* C14: every transmitted message carries data exactly when it is an add and row_changes
\* exactly when it is an edit.
C14_TransmittedWellFormed ==
    \A i \in 1 .. Len(transmitted) : WireInvariant(transmitted[i].wire)

\* C15: a close or a failure of a transport leaves the status 'disconnected', and the
\* status is 'connected' only while the manager holds an open socket.
C15_StatusFollowsTransport ==
    /\ [](connectionStatus = "connected" => SocketIsOpen(Mgr))
    /\ [][(\E i \in Sockets : SocketClose(i) \/ SocketError(i)) =>
             connectionStatus' = "disconnected"]_vars

\* the step is the body of a reconnection timer
IsTimerFire == \E t \in 1 .. Len(timers), ctorThrows \in BOOLEAN : TimerFire(t, ctorThrows)

\* the timers the step leaves pending when it schedules none
Bases ==
    IF IsTimerFire THEN {RemoveAt(timers, t) : t \in 1 .. Len(timers)} ELSE {timers}

\* C18: reconnectAttempts stays in 0..maxReconnectAttempts; an open event resets it to
\* zero and nothing else lowers it; a step schedules a reconnection exactly when it
\* raises the counter, by one, and the timer's delay is 2000 times the new count.
C18_AttemptsCountBackoff ==
    /\ [](reconnectAttempts \in 0 .. maxReconnectAttempts)
    /\ [][/\ (\E i \in Sockets : SocketOpen(i)) => reconnectAttempts' = 0
          /\ reconnectAttempts' < reconnectAttempts =>
                (reconnectAttempts' = 0 /\ \E i \in Sockets : SocketOpen(i))
          /\ reconnectAttempts' > reconnectAttempts =>
                /\ reconnectAttempts' = reconnectAttempts + 1
                /\ \E b \in Bases : timers' = SetTimeout(b, 2000 * reconnectAttempts')
          /\ reconnectAttempts' <= reconnectAttempts => timers' \in Bases]_vars

\* the second consecutive attempt is pending, with delay 4000
C18_Witness ==
    /\ reconnectAttempts = 2
    /\ timers = <<4000>>
    /\ nConnects = 1
    /\ ~disconnected

----------------------------------------------------------------------------
(* Claims about reconciliation *)

\* C1: when every call has been followed by the echo of its message, the mapping is
\* the one reached by the echoes alone.
C1_OptimisticConfirmConverges == pendingEcho = NoMsg => users = shadow

\* C8 as stated: a key for which an inbound delete has been reconciled is in no later
\* state in the active view.
C8_DeletedNeverActive == \A k \in deletedKeys : k \notin ActiveKeys(users)

\* C8, amended: reconciling an inbound delete for k leaves k out of the active view, and
\* a key outside the active view enters it only by an add or an edit for that key.
C8_DeletedUntilReadded ==
    [][/\ \A msg \in ReconMsgs :
             (/\ last'.op = "inbound" /\ last'.type = "delete" /\ last'.key = msg.key
              /\ msg.type = "delete"
              /\ ReconInbound(msg)) => msg.key \notin ActiveKeys(users')
       /\ \A k \in Names :
             (k \notin ActiveKeys(users) /\ k \in ActiveKeys(users')) =>
                 (last'.key = k /\ last'.type \in {"add", "edit"})]_vars

\* an inbound delete has just removed a listed entry
C8_Witness ==
    /\ last.op = "inbound" /\ last.type = "delete" /\ last.had
    /\ last.key \in deletedKeys
    /\ last.key \notin ActiveKeys(users)

\* the entry without its is_deleted flag
Payload(entry) == [f \in DOMAIN entry \ {"is_deleted"} |-> entry[f]]

\* C9: the second of two consecutive inbound adds for a key leaves the entry equal to
\* its data, and not deleted.
C9_SecondAddWins ==
    [][\A msg \in ReconMsgs :
          (last'.again /\ msg.type = "add" /\ Has(msg, "data") /\ ReconInbound(msg)) =>
              /\ msg.key \in ActiveKeys(users')
              /\ Payload(users'[msg.key]) = msg.data]_vars

\* C10: an inbound edit with row_changes on an existing entry sets the fields it names,
\* keeps every other field of the entry and keeps every other entry.
C10_EditChangesNamedFields ==
    [][\A msg \in ReconMsgs :
          (/\ last'.op = "inbound" /\ last'.type = "edit" /\ last'.key = msg.key
           /\ msg.type = "edit" /\ Has(msg, "row_changes")
           /\ msg.key \in DOMAIN users
           /\ ReconInbound(msg)) =>
              /\ DOMAIN users' = DOMAIN users
              /\ \A k \in DOMAIN users \ {msg.key} : users'[k] = users[k]
              /\ DOMAIN users'[msg.key] = DOMAIN users[msg.key] \cup DOMAIN msg.row_changes
              /\ \A f \in DOMAIN msg.row_changes : users'[msg.key][f] = msg.row_changes[f]
              /\ \A f \in DOMAIN users[msg.key] \ DOMAIN msg.row_changes :
                    users'[msg.key][f] = users[msg.key][f]]_vars

\* an inbound edit has just acted on an entry that existed, whose age it set
C10_Witness ==
    /\ last.op = "inbound" /\ last.type = "edit" /\ last.full /\ last.had
    /\ last.key \in DOMAIN users
    /\ DOMAIN users[last.key] = {"name", "age", "email", "is_deleted"}
    /\ users[last.key].age = 31

\* the message violates the contract of its type, or edits or deletes a key the mapping
\* does not hold
Malformed(u, msg) ==
    \/ ~Full(msg)
    \/ msg.type \in {"edit", "delete"} /\ msg.key \notin DOMAIN u

\* C11: handling a malformed inbound message leaves the mapping as it was and raises no
\* exception.
C11_MalformedRejected ==
    [][\A msg \in ReconMsgs :
          (/\ last'.op = "inbound" /\ last'.type = msg.type /\ last'.key = msg.key
           /\ Malformed(users, msg)
           /\ ReconInbound(msg)) =>
              (users' = users /\ ~Raises(variant, users, msg))]_vars

\* what the call does to the mapping over an open connection
AddUserApplied(u, name, age, email) ==
    IF variant = "react" THEN AddUserLocal(u, name, age, email)
    ELSE SolidAddUser(u, "OPEN", name, age, email)

EditUserApplied(u, key, field, value) ==
    IF variant = "react" THEN EditUserLocal(u, key, field, value)
    ELSE SolidEditUser(u, "OPEN", key, field, value)

DeleteUserApplied(u, key) ==
    IF variant = "react" THEN DeleteUserLocal(u, key) ELSE SolidDeleteUser(u, "OPEN", key)

\* the entity addUser constructs
NewEntity(name, age, email) ==
    IF variant = "react" THEN AddUserMessage(name, age, email).data
    ELSE SolidAddUserMessage(name, age, email).data

\* C16: after addUser(name, age, email) the entry at key name is the new entity, not
\* deleted, whatever was at the key before.
C16_AddUserOverwrites ==
    [][\A name \in Names, age \in Ages, state \in CallStates :
          (/\ last'.op = "addUser" /\ last'.key = name
           /\ ReconAddUser(name, age, LocalEmail, state)) =>
              /\ name \in ActiveKeys(users')
              /\ Payload(users'[name]) = NewEntity(name, age, LocalEmail)]_vars

\* C17: a call of addUser, editUser or deleteUser changes the mapping as it does over an
\* open connection, whatever the state of the socket.
C17_LocalMutationAlways ==
    [][/\ \A name \in Names, age \in Ages, state \in CallStates :
             (last'.op = "addUser" /\ ReconAddUser(name, age, LocalEmail, state)) =>
                 users' = AddUserApplied(users, name, age, LocalEmail)
       /\ \A key \in Names, fv \in FieldValues, state \in CallStates :
             (last'.op = "editUser" /\ ReconEditUser(key, fv[1], fv[2], state)) =>
                 users' = EditUserApplied(users, key, fv[1], fv[2])
       /\ \A key \in Names, state \in CallStates :
             (last'.op = "deleteUser" /\ ReconDeleteUser(key, state)) =>
                 users' = DeleteUserApplied(users, key)]_vars

\* C19: every entry of the active view carries name, age and email, and its name is the
\* key it is stored under.
C19_ActiveNameIsKey ==
    \A k \in ActiveKeys(users) :
        /\ {"name", "age", "email"} \subseteq DOMAIN users[k]
        /\ users[k].name = k

----------------------------------------------------------------------------
(* Claims about LocalStorageWithIndex *)

\* C12: getAllItems() is the mapping from the ids set and not removed since to the value
\* last set on each.
C12_AllItemsByIdLastValue == getAllItems(localStorage, User) = written[User]

\* C13: after clearAll() no composite key the instance ever indexed holds a value, the
\* index key is absent, getAllItems() is the empty mapping and getItem(id) is null for
\* every id.
C13_ClearAllEmpties ==
    lastStore.op = "clearAll" =>
        LET p == lastStore.prefix
        IN  /\ \A k \in everIndexed[p] : k \notin DOMAIN localStorage
            /\ indexKey(p) \notin DOMAIN localStorage
            /\ getAllItems(localStorage, p) = EmptyObj
            /\ \A id \in Ids :
                  /\ getFullKey(p, id) \notin DOMAIN localStorage
                  /\ getItem(localStorage, p, id) = JsonNull

\* clearAll() has just acted on an instance that held two entries
C13_Witness ==
    /\ lastStore.op = "clearAll"
    /\ lastStore.had = 2
    /\ Cardinality(everIndexed[User]) = 2
    /\ localStorage = EmptyObj

\* C20: a call on the instance with one prefix changes no result of getItem or
\* getAllItems on an instance with another prefix.
C20_PrefixesIsolated ==
    [][\A q \in Prefixes \ {lastStore'.prefix} :
          /\ getAllItems(localStorage', q) = getAllItems(localStorage, q)
          /\ \A id \in Ids : getItem(localStorage', q, id) = getItem(localStorage, q, id)]_vars

====
